---- MODULE Spec2Model ----
(***************************************************************************)
(* A model of run.py, the Test-Comp benchmark harness:                     *)
(*   - CSVTableGenerator (the result table),                               *)
(*   - parse_list / parse_tasks (task resolution from glob lists),         *)
(*   - execute (one bounded child process),                                *)
(*   - run_benchmark / run_tasks (the worker pool),                        *)
(*   - validate / validate_tasks (the validation of an earlier run).       *)
(* Each part has its own specification over the shared variables:          *)
(*   SpecTable, SpecTasks, SpecExecute, Spec (the pool, FairSpec with its  *)
(*   scheduling) and SpecValidate.                                         *)
(***************************************************************************)
EXTENDS Integers, Sequences, FiniteSets, TLC

(***************************************************************************)
(* Bounds of the model.                                                    *)
(***************************************************************************)
MaxRowLen == 2      \* longest header / row of the table specification
MaxRows == 2        \* add_row calls accepted in one table run
MaxCommits == 2     \* commit calls in one table run
MaxTasks == 2       \* tasks elements of a suite definition
MaxElems == 2       \* includesfile / excludesfile elements of one task
MaxJobs == 2        \* largest worker count (args.jobs) of a run
MaxInstances == 2   \* most instances submitted in one run

VARIABLES
    \* ---- CSVTableGenerator ----
    file,       \* the persisted file: a sequence of CSV records
    header,     \* self.header
    memory,     \* self.memory
    rsize,      \* self.rsize
    table,      \* self.table, the in-memory buffer
    raised,     \* the exception the last table call raised, or NoException
    added,      \* history: rows for which add_row returned normally
    commits,    \* history: number of commit calls
    call,       \* history: the last call made on the table
    \* ---- parse_tasks ----
    task,       \* the tasks element of the current iteration of parse_tasks
    tasks,      \* the dictionary parse_tasks builds (task name -> set of paths)
    tpc,        \* number of tasks elements parse_tasks has been through
    \* ---- execute, one call per caller ----
    epc,        \* where each caller's call of execute stands
    args,       \* the arguments of the call
    result,     \* the local result of the call
    elapsed,    \* time.time() - start, as the call would compute it now
    child,      \* how the child process of the call behaves
    excn,       \* the exception the call propagated, or "None"
    reportFile, \* output directory -> content of its report.json
    proc,       \* the process Popen created for the call, or NoProc
    \* ---- run_tasks / run_benchmark ----
    jobs,       \* args.jobs, the number of workers
    prop,       \* args.property
    n_tasks,    \* the flattened list of submitted instances
    queue,      \* the submissions no worker has taken yet, by index in n_tasks
    fut,        \* the state of each submission's future
    wpc,        \* where each worker stands in run_benchmark
    item,       \* the submission each worker is running
    lock,       \* the worker holding the shared lock, or 0
    curr,       \* the global progress counter
    loaded,     \* the value of curr each worker read for its "curr += 1"
    shown,      \* history: the values of curr passed to progress
    mpc,        \* where the main thread stands in run_tasks
    mnext,      \* the submission whose result the main thread waits for
    hist,       \* history, by submission: counter increments, execute calls,
                \* whether the launch of its child failed and whether its
                \* child ran past the timeout
    wrote,      \* history: the submission that wrote each data row of the file
    \* ---- validate_tasks / validate ----
    vprop,      \* args.property of the validation
    vsuites,    \* the test-suite directories that exist
    vpc,        \* where validate_tasks stands
    vcats,      \* the categories validate_tasks has not been through yet
    vqueue,     \* the instances of the current category not yet validated
    vdone       \* history: what each call of validate met and did

tableVars == <<file, header, memory, rsize, table, raised, added, commits, call>>

tasksVars == <<task, tasks, tpc>>

execVars == <<epc, args, result, elapsed, child, excn, reportFile, proc>>

runVars == <<jobs, prop, n_tasks, queue, fut, wpc, item, lock, curr, loaded,
             shown, mpc, mnext, hist, wrote>>

valVars == <<vprop, vsuites, vpc, vcats, vqueue, vdone>>

vars == <<file, header, memory, rsize, table, raised, added, commits, call,
          task, tasks, tpc,
          epc, args, result, elapsed, child, excn, reportFile, proc,
          jobs, prop, n_tasks, queue, fut, wpc, item, lock, curr, loaded,
          shown, mpc, mnext, hist, wrote,
          vprop, vsuites, vpc, vcats, vqueue, vdone>>

(***************************************************************************)
(* CSVTableGenerator                                                       *)
(***************************************************************************)
NoException == [type |-> "None"]

\* RowLengthDiffersException(len1, len2)
RowLengthDiffersException(len1, len2) ==
    [type |-> "RowLengthDiffersException", len1 |-> len1, len2 |-> len2]

\* writerow on a file opened with 'w' instead of 'a': the file is truncated
WriteRowTruncating(f, row) == <<row>>

\* open(self.file, 'a'); csv.writer(f).writerow(row): one more record at the
\* end of the file, holding the row's fields in order
WriteRow(f, row) == Append(f, row)

\* csv.writer(f).writerows(rows): one record per row, in order
WriteRows(f, rows) == f \o rows

Fields == {"a", "b"}

\* the rows a caller may pass: every length from 0 to MaxRowLen
Rows == UNION {[1..n -> Fields] : n \in 0..MaxRowLen}

Headers == {[i \in 1..n |-> "h"] : n \in 0..MaxRowLen}

\* CSVTableGenerator.__init__(file, header, memory)
TableInit(hdr, mem) ==
    /\ header = hdr
    /\ memory = mem
    /\ rsize = Len(hdr)
    /\ table = <<>>
    /\ file = WriteRow(<<>>, hdr)
    /\ raised = NoException
    /\ added = <<>>
    /\ commits = 0
    /\ call = [op |-> "__init__", row |-> <<>>]

\* CSVTableGenerator.add_row(row), mutated: the row is stored before its
\* length is checked
add_row_unchecked(row) ==
    /\ call' = [op |-> "add_row", row |-> row]
    /\ raised' = IF Len(row) # rsize
                 THEN RowLengthDiffersException(rsize, Len(row))
                 ELSE NoException
    /\ added' = IF Len(row) # rsize THEN added ELSE Append(added, row)
    /\ IF memory
       THEN table' = Append(table, row) /\ file' = file
       ELSE file' = WriteRow(file, row) /\ table' = table
    /\ UNCHANGED <<header, memory, rsize, commits>>

\* CSVTableGenerator.add_row(row)
add_row(row) ==
    /\ call' = [op |-> "add_row", row |-> row]
    /\ IF Len(row) # rsize
       THEN /\ raised' = RowLengthDiffersException(rsize, Len(row))
            /\ UNCHANGED <<file, header, memory, rsize, table, added, commits>>
       ELSE /\ raised' = NoException
            /\ added' = Append(added, row)
            /\ IF memory
               THEN table' = Append(table, row) /\ file' = file
               ELSE file' = WriteRow(file, row) /\ table' = table
            /\ UNCHANGED <<header, memory, rsize, commits>>

\* CSVTableGenerator.clear_table()
clear_table ==
    /\ call' = [op |-> "clear_table", row |-> <<>>]
    /\ table' = IF memory THEN <<>> ELSE table
    /\ raised' = NoException
    /\ UNCHANGED <<file, header, memory, rsize, added, commits>>

\* CSVTableGenerator.commit()
commit ==
    /\ call' = [op |-> "commit", row |-> <<>>]
    /\ file' = IF memory THEN WriteRows(file, table) ELSE file
    /\ commits' = commits + 1
    /\ raised' = NoException
    /\ UNCHANGED <<header, memory, rsize, table, added>>

(***************************************************************************)
(* parse_list / parse_tasks                                                *)
(*                                                                         *)
(* A line of a list file is a sequence of characters.  The characters of   *)
(* the model are " " and "\n" (whitespace), "#", "*", the letters "a" and  *)
(* "b", and "sv-benchmarks/", which stands for that leading path component.*)
(* A path is a record of its directory (a sequence of components) and its  *)
(* file name (a sequence of characters).                                   *)
(***************************************************************************)
Whitespace == {" ", "\n"}

SvDir == "sv-benchmarks/"

\* str.lstrip()
RECURSIVE lstrip(_)
lstrip(line) ==
    IF line # <<>> /\ Head(line) \in Whitespace THEN lstrip(Tail(line)) ELSE line

\* str.rstrip()
RECURSIVE rstrip(_)
rstrip(line) ==
    IF line # <<>> /\ line[Len(line)] \in Whitespace
    THEN rstrip(SubSeq(line, 1, Len(line) - 1))
    ELSE line

\* str.strip()
strip(line) == rstrip(lstrip(line))

\* str.startswith(prefix), for a prefix of one character
startswith(line, prefix) == line # <<>> /\ Head(line) = prefix

\* glob's fnmatch of one file name against a pattern: "*" matches any run
\* of characters, every other character matches itself
RECURSIVE fnmatch(_, _)
fnmatch(name, pat) ==
    IF pat = <<>> THEN name = <<>>
    ELSE IF Head(pat) = "*"
         THEN \/ fnmatch(name, Tail(pat))
              \/ (name # <<>> /\ fnmatch(Tail(name), pat))
         ELSE /\ name # <<>>
              /\ Head(name) = Head(pat)
              /\ fnmatch(Tail(name), Tail(pat))

\* the files of the file system
Path(dir, name) == [dir |-> dir, name |-> name]

FileSystem ==
    { Path(<<SvDir>>, <<"a">>), Path(<<SvDir>>, <<"b">>),
      Path(<<SvDir>>, <<"#", "a">>),
      Path(<<SvDir, SvDir>>, <<"a">>),
      Path(<<>>, <<"a">>) }

\* os.path.join(dirname, pattern): a leading "sv-benchmarks/" of the pattern
\* is one more directory under dirname
join(dirname, pattern) ==
    IF startswith(pattern, SvDir)
    THEN Path(Append(dirname, SvDir), Tail(pattern))
    ELSE Path(dirname, pattern)

\* glob.glob(pathname): the existing files of the pattern's directory whose
\* name matches
glob(pathname) ==
    {f \in FileSystem : f.dir = pathname.dir /\ fnmatch(f.name, pathname.name)}

\* the list files a suite definition can refer to: the directory of the list
\* file (os.path.dirname(i.text)) and its lines (fd.readlines())
ListFiles ==
    [ plain    |-> [dirname |-> <<SvDir>>,
                    data |-> << <<"a", "\n">>, <<"*", "\n">> >>],
      comments |-> [dirname |-> <<SvDir>>,
                    data |-> << <<"#", "a", "\n">>, <<"\n">>, <<" ", "\n">>,
                                <<" ", "b", " ", "\n">>,
                                <<SvDir, "a", "\n">>,
                                <<" ", "#", "a", "\n">> >>] ]

ListFileNames == DOMAIN ListFiles

\* parse_list(f): the lines that do not start with "#", each stripped
parse_list(f) ==
    LET kept == SelectSeq(ListFiles[f].data,
                          LAMBDA line : ~startswith(line, "#"))
    IN  [k \in 1..Len(kept) |-> strip(kept[k])]

\* the body of the loop over one includesfile's lines, from line k on
RECURSIVE IncludeLines(_, _, _, _)
IncludeLines(acc, i, tasks_sets, k) ==
    IF k > Len(tasks_sets) THEN acc
    ELSE LET tasks_set_file == tasks_sets[k]
         IN  IF tasks_set_file = <<>>
             THEN IncludeLines(acc, i, tasks_sets, k + 1)
             ELSE IncludeLines(
                      acc \cup glob(join(ListFiles[i].dirname, tasks_set_file)),
                      i, tasks_sets, k + 1)

\* the body of the loop over one excludesfile's lines, from line k on
RECURSIVE ExcludeLines(_, _, _, _)
ExcludeLines(acc, i, tasks_sets, k) ==
    IF k > Len(tasks_sets) THEN acc
    ELSE LET tasks_set_file == tasks_sets[k]
             tasks_set ==
                 IF startswith(tasks_set_file, SvDir)
                 THEN glob(join(<<>>, tasks_set_file))
                 ELSE glob(join(ListFiles[i].dirname, tasks_set_file))
         IN  IF tasks_set_file = <<>>
             THEN ExcludeLines(acc, i, tasks_sets, k + 1)
             ELSE ExcludeLines(acc \ tasks_set, i, tasks_sets, k + 1)

\* task.findall(tag): the children of the element with that tag, in
\* document order
findall(elem, tag) == SelectSeq(elem.children, LAMBDA e : e.tag = tag)

\* the loop over the includesfile elements, from element k on
RECURSIVE IncludeAll(_, _, _)
IncludeAll(acc, elems, k) ==
    IF k > Len(elems) THEN acc
    ELSE IncludeAll(
             IncludeLines(acc, elems[k].text, parse_list(elems[k].text), 1),
             elems, k + 1)

\* the loop over the excludesfile elements, from element k on
RECURSIVE ExcludeAll(_, _, _)
ExcludeAll(acc, elems, k) ==
    IF k > Len(elems) THEN acc
    ELSE ExcludeAll(
             ExcludeLines(acc, elems[k].text, parse_list(elems[k].text), 1),
             elems, k + 1)

\* the body of the loop over the tasks elements, mutated: the children are
\* applied in document order, an exclude before the includes that follow it
RECURSIVE ResolveInDocumentOrder(_, _, _)
ResolveInDocumentOrder(acc, elems, k) ==
    IF k > Len(elems) THEN acc
    ELSE ResolveInDocumentOrder(
             IF elems[k].tag = "includesfile"
             THEN IncludeLines(acc, elems[k].text, parse_list(elems[k].text), 1)
             ELSE ExcludeLines(acc, elems[k].text, parse_list(elems[k].text), 1),
             elems, k + 1)

ResolveTaskInDocumentOrder(elem) == ResolveInDocumentOrder({}, elem.children, 1)

\* the body of the loop over the tasks elements: the set tasks[name] ends
\* up with
ResolveTask(elem) ==
    ExcludeAll(IncludeAll({}, findall(elem, "includesfile"), 1),
               findall(elem, "excludesfile"), 1)

\* one iteration of the loop of parse_tasks over root.findall("tasks"):
\* tasks[name] = set(), then the includes, then the excludes; an earlier
\* entry of the same name is replaced
parse_task(tasks_, elem) ==
    [name \in DOMAIN tasks_ \cup {elem.name} |->
        IF name = elem.name THEN ResolveTask(elem) ELSE tasks_[name]]

\* the tasks elements of a suite definition: a name and up to MaxElems
\* includesfile / excludesfile children in any order
TaskNames == {"T1", "T2"}

Elements == [tag : {"includesfile", "excludesfile"}, text : ListFileNames]

ChildLists == UNION {[1..n -> Elements] : n \in 0..MaxElems}

(***************************************************************************)
(* parse_report / execute                                                  *)
(*                                                                         *)
(* A Python value is a record of its type t, its characters s (a str) and  *)
(* its number n in tenths (an int or a float).  Times are in seconds.      *)
(***************************************************************************)
PyStr(chars) == [t |-> "str", s |-> chars, n |-> 0]

PyInt(i) == [t |-> "int", s |-> <<>>, n |-> 10 * i]

PyFloat(tenths) == [t |-> "float", s |-> <<>>, n |-> tenths]

PyNone == [t |-> "NoneType", s |-> <<>>, n |-> 0]

\* a key the JSON object does not have
Missing == [t |-> "missing", s |-> <<>>, n |-> 0]

TimeoutAnswer == <<"T", "i", "m", "e", "o", "u", "t">>

Digits == <<"0", "1", "2", "3", "4", "5", "6", "7", "8", "9">>

DigitValue(c) == CHOOSE d \in 0..9 : Digits[d + 1] = c

IsDigit(c) == \E d \in 0..9 : Digits[d + 1] = c

\* the decimal numeral of a natural number below 100
Numeral(i) == IF i < 10 THEN <<Digits[i + 1]>>
              ELSE <<Digits[(i \div 10) + 1], Digits[(i % 10) + 1]>>

\* the value of a numeral of one or two digits, or -1 if it is not one
NumeralValue(chars) ==
    IF Len(chars) = 1 /\ IsDigit(chars[1]) THEN DigitValue(chars[1])
    ELSE IF Len(chars) = 2 /\ IsDigit(chars[1]) /\ IsDigit(chars[2])
         THEN 10 * DigitValue(chars[1]) + DigitValue(chars[2])
         ELSE -1

Converted(v) == [exc |-> "None", v |-> v]

Raises(exc) == [exc |-> exc, v |-> PyNone]

\* str(x)
str(x) ==
    CASE x.t = "str" -> Converted(x)
      [] x.t = "int" -> Converted(PyStr(Numeral(x.n \div 10)))
      [] x.t = "float" ->
             Converted(PyStr(Numeral(x.n \div 10) \o <<".", Digits[(x.n % 10) + 1]>>))
      [] x.t = "NoneType" -> Converted(PyStr(<<"N", "o", "n", "e">>))

\* float(x)
float(x) ==
    CASE x.t = "float" -> Converted(x)
      [] x.t = "int" -> Converted(PyFloat(x.n))
      [] x.t = "str" ->
             LET dot == {k \in 1..Len(x.s) : x.s[k] = "."}
                 whole == IF dot = {} THEN NumeralValue(x.s)
                          ELSE NumeralValue(SubSeq(x.s, 1, Len(x.s) - 2))
             IN  IF dot = {} /\ whole >= 0 THEN Converted(PyFloat(10 * whole))
                 ELSE IF dot = {Len(x.s) - 1} /\ whole >= 0 /\ IsDigit(x.s[Len(x.s)])
                      THEN Converted(PyFloat(10 * whole + DigitValue(x.s[Len(x.s)])))
                      ELSE Raises("ValueError")
      [] x.t = "NoneType" -> Raises("TypeError")

\* int(x)
int(x) ==
    CASE x.t = "int" -> Converted(x)
      [] x.t = "float" -> Converted(PyInt(x.n \div 10))
      [] x.t = "str" -> IF NumeralValue(x.s) >= 0
                        THEN Converted(PyInt(NumeralValue(x.s)))
                        ELSE Raises("ValueError")
      [] x.t = "NoneType" -> Raises("TypeError")

\* the content of a report.json
Absent == [kind |-> "absent"]

InvalidJson == [kind |-> "invalid"]

JsonList == [kind |-> "list"]

\* a child that writes no report.json
NoReport == [kind |-> "nothing"]

JsonObject(specification, solver_time, paths_explored) ==
    [kind |-> "object", specification |-> specification,
     solver_time |-> solver_time, paths_explored |-> paths_explored]

\* parse_report(f): json.load of the file, or the defaults if that fails
parse_report(content) ==
    IF content.kind \in {"absent", "invalid"}
    THEN JsonObject(PyStr(TimeoutAnswer), PyFloat(0), PyInt(0))
    ELSE content

\* report[key]
Subscript(report, key) ==
    IF report.kind # "object" THEN Raises("TypeError")
    ELSE IF report[key] = Missing THEN Raises("KeyError")
         ELSE Converted(report[key])

\* the locals of a caller that is not inside execute
NoArgs == [benchmark |-> <<>>, output_dir |-> <<>>, prop |-> <<>>]

NoResult == [runtime |-> 0, answer |-> PyNone, solver_time |-> PyNone,
             paths_explored |-> PyNone]

NoChild == [launch |-> "", forkTime |-> 0, duration |-> 0, lateness |-> 0,
            group |-> "", exit |-> 0, report |-> NoReport]

\* the timeout passed to proc.communicate
TIMEOUT == 900

\* execute: cmd, the argument vector built for the tool
Cmd(benchmark, output_dir, prop_) ==
    <<"owic", benchmark, "--output", output_dir, "--test-comp",
      "--property", prop_, "--arch", "32">>

\* subprocess.Popen(args, shell=...), args a list: the argument vector of the
\* process it executes; with shell=True the list follows "/bin/sh", "-c"
PopenArgv(cmd, shell) == IF shell THEN <<"/bin/sh", "-c">> \o cmd ELSE cmd

\* sh -c command_string [command_name [argument...]]: the argument vector of
\* the command the shell runs for a command string of one word; the further
\* arguments are the shell's $0, $1, ..., which that string does not use
sh(argv) == <<argv[3]>>

\* process identifiers: the harness itself, the child Popen forks for caller
\* w (the shell), and the tool that shell runs
Orchestrator == 1

ChildPid(w) == 2 * w

ToolPid(w) == 2 * w + 1

\* the process group of the harness, which a forked child inherits
OrchestratorPgid == Orchestrator

\* preexec_fn without os.setsid(): the child stays in the group it inherited
preexec_fn_without_setsid(pid, inherited) == inherited

\* preexec_fn, run in the child between fork and exec: after setrlimit,
\* os.setsid() makes the child the leader of a new group, its own
preexec_fn(pid, inherited) == pid

\* a caller that has no process
NoProc == [pid |-> 0, pgid |-> 0, argv |-> <<>>, tool |-> <<>>, signalled |-> {}]

\* the callers whose Popen has created a process
Launched == {v \in DOMAIN proc : proc[v].pid # 0}

\* os.getpgid(pid)
getpgid(pid) ==
    IF pid = Orchestrator THEN OrchestratorPgid
    ELSE LET v == CHOOSE v \in Launched : pid \in {proc[v].pid, ToolPid(v)}
         IN  proc[v].pgid

\* os.killpg(pgid, SIGTERM): the processes the signal is sent to, every
\* member of the group; what a child's shell spawned is in the child's group
killpg(pgid) ==
    (IF OrchestratorPgid = pgid THEN {Orchestrator} ELSE {})
    \cup UNION {{proc[v].pid, ToolPid(v)} : v \in {u \in Launched : proc[u].pgid = pgid}}

\* execute: result = {...}; start = time.time(); cmd = [...]
ExecuteEnter(w, benchmark, output_dir, prop_, behaviour) ==
    /\ epc' = [epc EXCEPT ![w] = "Popen"]
    /\ args' = [args EXCEPT ![w] = [benchmark |-> benchmark,
                                    output_dir |-> output_dir, prop |-> prop_]]
    /\ result' = [result EXCEPT ![w] =
                     [runtime |-> 0, answer |-> PyStr(TimeoutAnswer),
                      solver_time |-> PyFloat(0), paths_explored |-> PyInt(0)]]
    /\ elapsed' = [elapsed EXCEPT ![w] = 0]
    /\ child' = [child EXCEPT ![w] = behaviour]
    /\ excn' = [excn EXCEPT ![w] = "None"]
    /\ proc' = [proc EXCEPT ![w] = NoProc]
    /\ UNCHANGED reportFile

\* execute: proc = subprocess.Popen(...), outside the try statement
Popen(w) ==
    /\ epc[w] = "Popen"
    /\ IF child[w].launch = "fails"
       THEN /\ epc' = [epc EXCEPT ![w] = "raised"]
            /\ excn' = [excn EXCEPT ![w] = "OSError"]
            /\ UNCHANGED <<elapsed, proc>>
       ELSE /\ epc' = [epc EXCEPT ![w] = "communicate"]
            /\ elapsed' = [elapsed EXCEPT ![w] = @ + child[w].forkTime]
            /\ proc' = [proc EXCEPT ![w] =
                           LET cmd == Cmd(args[w].benchmark, args[w].output_dir,
                                          args[w].prop)
                           IN  [pid |-> ChildPid(w),
                                pgid |-> preexec_fn(ChildPid(w), OrchestratorPgid),
                                argv |-> PopenArgv(cmd, TRUE),
                                tool |-> sh(PopenArgv(cmd, TRUE)),
                                signalled |-> {}]]
            /\ UNCHANGED excn
    /\ UNCHANGED <<args, result, child, reportFile>>

\* execute: proc.communicate(timeout=900.0) returns once the child has
\* exited, the child having left what it leaves in its output directory, or
\* raises TimeoutExpired once the timeout has passed
Communicate(w) ==
    /\ epc[w] = "communicate"
    /\ IF child[w].duration < TIMEOUT
       THEN /\ epc' = [epc EXCEPT ![w] = "parse_report"]
            /\ elapsed' = [elapsed EXCEPT ![w] = @ + child[w].duration]
            /\ reportFile' = IF child[w].report = NoReport THEN reportFile
                             ELSE [reportFile EXCEPT ![args[w].output_dir] =
                                      child[w].report]
       ELSE /\ epc' = [epc EXCEPT ![w] = "TimeoutExpired"]
            /\ elapsed' = [elapsed EXCEPT ![w] = @ + TIMEOUT + child[w].lateness]
            /\ UNCHANGED reportFile
    /\ UNCHANGED <<args, result, child, excn, proc>>

\* the try block, mutated: only the answer is taken from the report
TryBodyAnswerOnly(r, report) ==
    LET specification == Subscript(report, "specification")
        answer == IF specification.exc # "None" THEN specification
                  ELSE str(specification.v)
    IN  IF answer.exc # "None" THEN [exc |-> answer.exc, r |-> r]
        ELSE [exc |-> "None", r |-> [r EXCEPT !.answer = answer.v]]

\* the three assignments of the try block, each subscript and conversion
\* raising what Python raises; r is the local result so far
TryBody(r, report) ==
    LET specification == Subscript(report, "specification")
        answer == IF specification.exc # "None" THEN specification
                  ELSE str(specification.v)
        solver_time_ == Subscript(report, "solver_time")
        solver_time == IF solver_time_.exc # "None" THEN solver_time_
                       ELSE float(solver_time_.v)
        paths_explored_ == Subscript(report, "paths_explored")
        paths_explored == IF paths_explored_.exc # "None" THEN paths_explored_
                          ELSE int(paths_explored_.v)
    IN  IF answer.exc # "None" THEN [exc |-> answer.exc, r |-> r]
        ELSE IF solver_time.exc # "None"
             THEN [exc |-> solver_time.exc, r |-> [r EXCEPT !.answer = answer.v]]
             ELSE IF paths_explored.exc # "None"
                  THEN [exc |-> paths_explored.exc,
                        r |-> [r EXCEPT !.answer = answer.v,
                                        !.solver_time = solver_time.v]]
                  ELSE [exc |-> "None",
                        r |-> [r EXCEPT !.answer = answer.v,
                                        !.solver_time = solver_time.v,
                                        !.paths_explored = paths_explored.v]]

\* execute: report = parse_report(...) and the assignments from it; only
\* TimeoutExpired is caught, any other exception leaves execute
ParseReport(w) ==
    /\ epc[w] = "parse_report"
    /\ LET outcome == TryBody(result[w],
                              parse_report(reportFile[args[w].output_dir]))
       IN  /\ result' = [result EXCEPT ![w] = outcome.r]
           /\ excn' = [excn EXCEPT ![w] = outcome.exc]
           /\ epc' = [epc EXCEPT ![w] =
                         IF outcome.exc = "None" THEN "return" ELSE "raised"]
    /\ UNCHANGED <<args, elapsed, child, reportFile, proc>>

\* the except clause, mutated: after the timeout the report is read all the
\* same
TimeoutExpiredThenParse(w) ==
    /\ epc[w] = "TimeoutExpired"
    /\ result' = [result EXCEPT ![w].answer = PyStr(TimeoutAnswer)]
    /\ epc' = [epc EXCEPT ![w] = IF child[w].group = "gone" THEN "raised"
                                 ELSE "parse_report"]
    /\ excn' = [excn EXCEPT ![w] = IF child[w].group = "gone"
                                   THEN "ProcessLookupError" ELSE @]
    /\ proc' = IF child[w].group = "gone" THEN proc
               ELSE [proc EXCEPT ![w].signalled = killpg(getpgid(proc[w].pid))]
    /\ UNCHANGED <<args, elapsed, child, reportFile>>

\* execute: except subprocess.TimeoutExpired: the answer, then os.killpg,
\* which raises if the process group is gone
TimeoutExpired(w) ==
    /\ epc[w] = "TimeoutExpired"
    /\ result' = [result EXCEPT ![w].answer = PyStr(TimeoutAnswer)]
    /\ IF child[w].group = "gone"
       THEN /\ epc' = [epc EXCEPT ![w] = "raised"]
            /\ excn' = [excn EXCEPT ![w] = "ProcessLookupError"]
            /\ UNCHANGED proc
       ELSE /\ epc' = [epc EXCEPT ![w] = "return"]
            /\ proc' = [proc EXCEPT ![w].signalled =
                           killpg(getpgid(proc[w].pid))]
            /\ UNCHANGED excn
    /\ UNCHANGED <<args, elapsed, child, reportFile>>

\* execute: result["runtime"] = time.time() - start; return result
Return(w) ==
    /\ epc[w] = "return"
    /\ result' = [result EXCEPT ![w].runtime = elapsed[w]]
    /\ epc' = [epc EXCEPT ![w] = "returned"]
    /\ UNCHANGED <<args, elapsed, child, excn, reportFile, proc>>

\* what a child can leave as report.json: nothing, or a file that is not
\* JSON, or JSON that is not an object, or an object with each of the three
\* keys missing, well typed or mistyped
Specifications == {Missing, PyStr(<<"O", "K">>), PyInt(1)}

SolverTimes == {Missing, PyFloat(15), PyInt(2), PyStr(<<"a">>), PyStr(<<"1", ".", "5">>)}

PathsExplored == {Missing, PyInt(7), PyFloat(79), PyNone, PyStr(<<"7">>)}

Reports ==
    {NoReport, InvalidJson, JsonList}
    \cup {JsonObject(sp, st, pe) : sp \in Specifications, st \in SolverTimes,
                                   pe \in PathsExplored}

\* a report.json is well formed if it is an object whose specification is a
\* string, whose solver_time is a float and whose paths_explored is an int
WellFormed(content) ==
    /\ content.kind = "object"
    /\ content.specification.t = "str"
    /\ content.solver_time.t = "float"
    /\ content.paths_explored.t = "int"

\* the report of a child that ran to its end
GoodReport == JsonObject(PyStr(<<"O", "K">>), PyFloat(15), PyInt(7))

\* the report of a child that wrote an empty JSON object
EmptyReport == JsonObject(Missing, Missing, Missing)

\* how the children of a run behave: one ends in time and writes its
\* report, one ends in time and writes an empty JSON object, one runs past
\* the timeout, one cannot be launched
RunBehaviours ==
    { [launch |-> "ok", forkTime |-> 0, duration |-> 1, lateness |-> 0,
       group |-> "alive", exit |-> 0, report |-> GoodReport],
      [launch |-> "ok", forkTime |-> 0, duration |-> 1, lateness |-> 0,
       group |-> "alive", exit |-> 1, report |-> EmptyReport],
      [launch |-> "ok", forkTime |-> 0, duration |-> TIMEOUT, lateness |-> 0,
       group |-> "alive", exit |-> 0, report |-> NoReport],
      [launch |-> "fails", forkTime |-> 0, duration |-> 1, lateness |-> 0,
       group |-> "alive", exit |-> 0, report |-> NoReport] }

\* how a child can behave
Behaviours ==
    [launch : {"ok", "fails"}, forkTime : {0, 1},
     duration : {1, TIMEOUT - 1, TIMEOUT, TIMEOUT + 100},
     lateness : {0, 1}, group : {"alive", "gone"}, exit : {0, 1},
     report : Reports]

(***************************************************************************)
(* run_benchmark / run_tasks                                               *)
(*                                                                         *)
(* Here a path is the sequence of its components.                          *)
(***************************************************************************)
\* os.path.basename(path)
basename(path) == path[Len(path)]

\* os.path.dirname(path)
dirname(path) == SubSeq(path, 1, Len(path) - 1)

\* the property files a run can select
CoverageError == <<"sv-benchmarks", "c", "properties", "coverage-error-call.prp">>

CoverageBranches == <<"sv-benchmarks", "c", "properties", "coverage-branches.prp">>

Properties == {CoverageError, CoverageBranches}

\* the benchmark descriptors of the corpus, parse_yaml(benchmark) of each:
\* the first names the error-call property, the second names it after
\* another property and under another directory, the third names the
\* branch coverage property only; the input file of the second has the
\* name of the first's, in a directory of the same name elsewhere
Descriptors ==
    [ b1 |-> [path |-> <<"c", "loops", "b1.yml">>,
              input_files |-> <<"b1.c">>,
              properties |-> << [property_file |-> <<"..", "properties", "coverage-error-call.prp">>] >>],
      b2 |-> [path |-> <<"d", "loops", "b2.yml">>,
              input_files |-> <<"b1.c">>,
              properties |-> << [property_file |-> <<"..", "properties", "unreach-call.prp">>],
                                [property_file |-> <<"elsewhere", "coverage-error-call.prp">>] >>],
      b3 |-> [path |-> <<"c", "loops", "b3.yml">>,
              input_files |-> <<"b3.c">>,
              properties |-> << [property_file |-> <<"..", "properties", "coverage-branches.prp">>] >>] ]

Benchmarks == DOMAIN Descriptors

\* run_benchmark, lines 251-257, mutated: whole property paths are compared
RECURSIVE SkipByFullPath(_, _, _)
SkipByFullPath(properties, prop_, k) ==
    IF k > Len(properties) THEN TRUE
    ELSE IF prop_ = properties[k].property_file THEN FALSE
         ELSE SkipByFullPath(properties, prop_, k + 1)

\* run_benchmark, lines 251-257: skip, after the loop over the descriptor's
\* properties from entry k on
RECURSIVE Skip(_, _, _)
Skip(properties, prop_, k) ==
    IF k > Len(properties) THEN TRUE
    ELSE LET prop_name == basename(prop_)
             prp_name == basename(properties[k].property_file)
         IN  IF prop_name = prp_name THEN FALSE
             ELSE Skip(properties, prop_, k + 1)

\* run_benchmark: benchmark_file
BenchmarkFile(b) == dirname(Descriptors[b].path) \o Descriptors[b].input_files

\* run_benchmark: output_dir
OutputDir(b) ==
    <<"wasp-out", basename(dirname(BenchmarkFile(b))), basename(BenchmarkFile(b))>>

\* round(num / den), as Python rounds: to the nearest integer, a tie to the
\* even one
round(num, den) ==
    LET q == num \div den
        r == num % den
    IN  IF 2 * r < den THEN q
        ELSE IF 2 * r > den THEN q + 1
             ELSE IF q % 2 = 0 THEN q ELSE q + 1

\* progress(msg, curr, total): status, the percentage it renders
progress(curr_, total) == round(curr_ * 100, total)

\* the header run_tasks gives the table
ReportHeader == <<"test", "answer", "t_backend", "t_solver", "paths">>

\* the row run_benchmark builds from the result of execute
ReportRow(b, r) ==
    <<BenchmarkFile(b), r.answer, r.runtime, r.solver_time, r.paths_explored>>

Workers == 1..jobs

\* lock.acquire(), mutated: it does not wait for the lock to be free
acquire_unguarded(w) == lock' = w

\* lock.acquire() that takes nothing: the caller goes on without the lock
acquire_without_lock(w) == UNCHANGED lock

\* lock.acquire(): blocks while another worker holds the lock
acquire(w) == lock = 0 /\ lock' = w

\* lock.release() left out: the lock stays with its holder
release_missing == lock' = lock

\* lock.release()
release == lock' = 0

\* a worker thread of the pool takes the next work item of the queue; the
\* idle threads are interchangeable, the first of them takes it
TakeWork(w) ==
    /\ wpc[w] = "idle"
    /\ \A v \in Workers : v < w => wpc[v] # "idle"
    /\ queue # <<>>
    /\ item' = [item EXCEPT ![w] = Head(queue)]
    /\ queue' = Tail(queue)
    /\ fut' = [fut EXCEPT ![Head(queue)] = "running"]
    /\ wpc' = [wpc EXCEPT ![w] = "acquire"]
    /\ UNCHANGED <<loaded, jobs, prop, n_tasks, lock, curr, shown, mpc, mnext, hist, wrote>>
    /\ UNCHANGED <<tableVars, tasksVars, valVars, execVars>>

\* run_benchmark: the first lock.acquire()
AcquireForProgress(w) ==
    /\ wpc[w] = "acquire"
    /\ acquire(w)
    /\ wpc' = [wpc EXCEPT ![w] = "progress"]
    /\ UNCHANGED <<loaded, jobs, prop, n_tasks, queue, fut, item, curr, shown, mpc,
                   mnext, hist, wrote>>
    /\ UNCHANGED <<tableVars, tasksVars, valVars, execVars>>

\* run_benchmark: "curr += 1" reads the global curr
LoadCurr(w) ==
    /\ wpc[w] = "progress"
    /\ loaded' = [loaded EXCEPT ![w] = curr]
    /\ wpc' = [wpc EXCEPT ![w] = "store"]
    /\ UNCHANGED <<jobs, prop, n_tasks, queue, fut, item, lock, curr, shown,
                   mpc, mnext, hist, wrote>>
    /\ UNCHANGED <<tableVars, tasksVars, valVars, execVars>>

\* run_benchmark: "curr += 1" stores the sum; prev = progress(...);
\* lock.release()
Progress(w) ==
    /\ wpc[w] = "store"
    /\ curr' = loaded[w] + 1
    /\ shown' = Append(shown, curr')
    /\ hist' = [hist EXCEPT ![item[w]].incs = @ + 1]
    /\ release
    /\ wpc' = [wpc EXCEPT ![w] = "parse_yaml"]
    /\ loaded' = [loaded EXCEPT ![w] = 0]
    /\ UNCHANGED <<jobs, prop, n_tasks, queue, fut, item, mpc, mnext, wrote>>
    /\ UNCHANGED <<tableVars, tasksVars, valVars, execVars>>

\* run_benchmark: the descriptor is parsed and searched for the selected
\* property; the instance is skipped (return None), or execute is entered
\* with the instance's input file and output directory
ParseYaml(w) ==
    /\ wpc[w] = "parse_yaml"
    /\ LET benchmark == n_tasks[item[w]]
           benchmark_conf == Descriptors[benchmark]
       IN  IF Skip(benchmark_conf.properties, prop, 1)
           THEN /\ wpc' = [wpc EXCEPT ![w] = "idle"]
                /\ fut' = [fut EXCEPT ![item[w]] = "finished"]
                /\ item' = [item EXCEPT ![w] = 0]
                /\ UNCHANGED <<hist, execVars>>
           ELSE /\ wpc' = [wpc EXCEPT ![w] = "execute"]
                /\ \E behaviour \in RunBehaviours :
                       /\ ExecuteEnter(w, BenchmarkFile(benchmark),
                                       OutputDir(benchmark), prop, behaviour)
                       /\ hist' = [hist EXCEPT
                                      ![item[w]].execs = @ + 1,
                                      ![item[w]].unlaunched =
                                          behaviour.launch # "ok",
                                      ![item[w]].hung =
                                          /\ behaviour.launch = "ok"
                                          /\ behaviour.duration >= TIMEOUT]
                /\ UNCHANGED <<fut, item>>
    /\ UNCHANGED <<loaded, jobs, prop, n_tasks, queue, lock, curr, shown, mpc,
                   mnext, wrote>>
    /\ UNCHANGED <<tableVars, tasksVars, valVars>>

\* a step of the worker's call of execute
Execute(w) ==
    /\ wpc[w] = "execute"
    /\ \/ Popen(w)
       \/ Communicate(w)
       \/ ParseReport(w)
       \/ TimeoutExpired(w)
       \/ Return(w)
    /\ UNCHANGED <<runVars, tableVars, tasksVars, valVars>>

\* an exception leaves execute and run_benchmark: the future holds it
ExecuteRaised(w) ==
    /\ wpc[w] = "execute"
    /\ epc[w] = "raised"
    /\ epc' = [epc EXCEPT ![w] = "left"]
    /\ fut' = [fut EXCEPT ![item[w]] = "raised"]
    /\ wpc' = [wpc EXCEPT ![w] = "idle"]
    /\ item' = [item EXCEPT ![w] = 0]
    /\ args' = [args EXCEPT ![w] = NoArgs]
    /\ result' = [result EXCEPT ![w] = NoResult]
    /\ elapsed' = [elapsed EXCEPT ![w] = 0]
    /\ child' = [child EXCEPT ![w] = NoChild]
    /\ excn' = [excn EXCEPT ![w] = "None"]
    /\ proc' = [proc EXCEPT ![w] = NoProc]
    /\ UNCHANGED <<loaded, jobs, prop, n_tasks, queue, lock, curr, shown, mpc,
                   mnext, hist, wrote, reportFile>>
    /\ UNCHANGED <<tableVars, tasksVars, valVars>>

\* run_benchmark: execute has returned; the second lock.acquire()
AcquireForRow(w) ==
    /\ wpc[w] = "execute"
    /\ epc[w] = "returned"
    /\ acquire(w)
    /\ epc' = [epc EXCEPT ![w] = "left"]
    /\ wpc' = [wpc EXCEPT ![w] = "add_row"]
    /\ UNCHANGED <<loaded, jobs, prop, n_tasks, queue, fut, item, curr, shown, mpc,
                   mnext, hist, wrote>>
    /\ UNCHANGED <<args, result, elapsed, child, excn, reportFile, proc>>
    /\ UNCHANGED <<tableVars, tasksVars, valVars>>

\* run_benchmark: table.add_row([...]); lock.release(); the task is done
WriteResult(w) ==
    /\ wpc[w] = "add_row"
    /\ add_row(ReportRow(n_tasks[item[w]], result[w]))
    /\ wrote' = Append(wrote, item[w])
    /\ release
    /\ fut' = [fut EXCEPT ![item[w]] = "finished"]
    /\ wpc' = [wpc EXCEPT ![w] = "idle"]
    /\ item' = [item EXCEPT ![w] = 0]
    /\ args' = [args EXCEPT ![w] = NoArgs]
    /\ result' = [result EXCEPT ![w] = NoResult]
    /\ elapsed' = [elapsed EXCEPT ![w] = 0]
    /\ child' = [child EXCEPT ![w] = NoChild]
    /\ excn' = [excn EXCEPT ![w] = "None"]
    /\ proc' = [proc EXCEPT ![w] = NoProc]
    /\ UNCHANGED <<loaded, jobs, prop, n_tasks, queue, curr, shown, mpc, mnext, hist,
                   epc, reportFile>>
    /\ UNCHANGED <<tasksVars, valVars>>

\* run_tasks: "for _ in results" receives the next result, in submission
\* order
NextResult ==
    /\ mpc = "results"
    /\ mnext <= Len(n_tasks)
    /\ fut[mnext] = "finished"
    /\ mnext' = mnext + 1
    /\ UNCHANGED <<loaded, jobs, prop, n_tasks, queue, fut, wpc, item, lock, curr,
                   shown, mpc, hist, wrote>>
    /\ UNCHANGED <<tableVars, tasksVars, valVars, execVars>>

\* run_tasks: the next result is an exception: it is raised in the main
\* thread, and the iterator of executor.map cancels the futures not started
ResultRaises ==
    /\ mpc = "results"
    /\ mnext <= Len(n_tasks)
    /\ fut[mnext] = "raised"
    /\ mpc' = "raising"
    /\ fut' = [i \in DOMAIN fut |-> IF fut[i] = "pending" THEN "cancelled" ELSE fut[i]]
    /\ queue' = <<>>
    /\ UNCHANGED <<loaded, jobs, prop, n_tasks, wpc, item, lock, curr, shown, mnext,
                   hist, wrote>>
    /\ UNCHANGED <<tableVars, tasksVars, valVars, execVars>>

\* run_tasks: the with statement ends, executor.shutdown(wait=True) returns
\* once every worker thread has ended; then return 0, or the exception
\* leaves run_tasks
Shutdown ==
    /\ \/ mpc = "results" /\ mnext > Len(n_tasks)
       \/ mpc = "raising"
    /\ queue = <<>>
    /\ \A w \in Workers : wpc[w] = "idle"
    /\ mpc' = IF mpc = "results" THEN "returned" ELSE "raised"
    /\ UNCHANGED <<loaded, jobs, prop, n_tasks, queue, fut, wpc, item, lock, curr,
                   shown, mnext, hist, wrote>>
    /\ UNCHANGED <<tableVars, tasksVars, valVars, execVars>>

\* the parts of the state a specification does not use
NoRun == /\ jobs = 0
         /\ prop = <<>>
         /\ n_tasks = <<>>
         /\ queue = <<>>
         /\ fut = <<>>
         /\ wpc = <<>>
         /\ item = <<>>
         /\ lock = 0
         /\ curr = 0
         /\ loaded = <<>>
         /\ shown = <<>>
         /\ mpc = "unused"
         /\ mnext = 0
         /\ hist = <<>>
         /\ wrote = <<>>

NoElement == [name |-> "", children |-> <<>>]

NoTasks == task = NoElement /\ tasks = <<>> /\ tpc = 0

NoExecute == /\ epc = <<>>
             /\ args = <<>>
             /\ result = <<>>
             /\ elapsed = <<>>
             /\ child = <<>>
             /\ excn = <<>>
             /\ reportFile = <<>>
             /\ proc = <<>>

NoValidate == /\ vprop = <<>>
              /\ vsuites = {}
              /\ vpc = "unused"
              /\ vcats = <<>>
              /\ vqueue = <<>>
              /\ vdone = <<>>

InitTable == /\ \E hdr \in Headers, mem \in BOOLEAN : TableInit(hdr, mem)
             /\ NoTasks
             /\ NoExecute
             /\ NoRun
             /\ NoValidate

AddRow == /\ Len(added) < MaxRows
          /\ \E row \in Rows : add_row(row)
          /\ UNCHANGED <<tasksVars, valVars, execVars, runVars>>

ClearTable == clear_table /\ UNCHANGED <<tasksVars, valVars, execVars, runVars>>

Commit == commits < MaxCommits /\ commit /\ UNCHANGED <<tasksVars, valVars, execVars, runVars>>

NextTable == AddRow \/ ClearTable \/ Commit

SpecTable == InitTable /\ [][NextTable]_vars

NoTable == TableInit(<<>>, FALSE)

\* parse_tasks: tasks = {}, root = ET.parse(conf).getroot()
InitTasks == /\ task = NoElement
             /\ tasks = <<>>
             /\ tpc = 0
             /\ NoTable
             /\ NoExecute
             /\ NoRun
             /\ NoValidate

\* parse_tasks: one iteration of "for task in root.findall('tasks')", over
\* the next tasks element of the document
ParseTask == /\ tpc < MaxTasks
             /\ \E name \in TaskNames, children \in ChildLists :
                    /\ task' = [name |-> name, children |-> children]
                    /\ tasks' = parse_task(tasks, task')
             /\ tpc' = tpc + 1
             /\ UNCHANGED <<tableVars, execVars, runVars, valVars>>

NextTasks == ParseTask

\* a report.json an earlier run left in the output directory
StaleReport == JsonObject(PyStr(<<"O", "L", "D">>), PyFloat(99), PyInt(9))

\* one caller about to call execute for an output directory that is empty
\* or holds an earlier run's report
InitExecute == /\ epc = <<"call">>
               /\ args = <<NoArgs>>
               /\ result = <<NoResult>>
               /\ elapsed = <<0>>
               /\ child \in [{1} -> Behaviours]
               /\ excn = <<"None">>
               /\ proc = <<NoProc>>
               /\ reportFile \in [{<<"wasp-out", "d", "f.c">>} -> {Absent, StaleReport}]
               /\ NoTable
               /\ NoTasks
               /\ NoRun
               /\ NoValidate

ExecuteCall == /\ epc[1] = "call"
               /\ ExecuteEnter(1, <<"c", "d", "f.c">>, <<"wasp-out", "d", "f.c">>,
                               CoverageError, child[1])
               /\ UNCHANGED <<tableVars, tasksVars, valVars, runVars>>

ExecutePopen == Popen(1) /\ UNCHANGED <<tableVars, tasksVars, valVars, runVars>>

ExecuteCommunicate == Communicate(1) /\ UNCHANGED <<tableVars, tasksVars, valVars, runVars>>

ExecuteParseReport == ParseReport(1) /\ UNCHANGED <<tableVars, tasksVars, valVars, runVars>>

ExecuteTimeoutExpired == TimeoutExpired(1) /\ UNCHANGED <<tableVars, tasksVars, valVars, runVars>>

ExecuteReturn == Return(1) /\ UNCHANGED <<tableVars, tasksVars, valVars, runVars>>

NextExecute == \/ ExecuteCall
               \/ ExecutePopen
               \/ ExecuteCommunicate
               \/ ExecuteParseReport
               \/ ExecuteTimeoutExpired
               \/ ExecuteReturn

SpecExecute == InitExecute /\ [][NextExecute]_vars

\* the task sets a run can be given: each task a set of benchmarks, at most
\* MaxInstances instances in all
TaskSets ==
    {ts \in [{"T1", "T2"} -> SUBSET Benchmarks] :
        Cardinality(ts["T1"]) + Cardinality(ts["T2"]) <= MaxInstances}

\* the lists "n_tasks += benchmarks" can make of a set, in any order
Listings(set) ==
    {l \in [1..Cardinality(set) -> set] : \A b \in set : \E k \in DOMAIN l : l[k] = b}

\* run_tasks up to executor.map: n_tasks is the concatenation of the task
\* sets, the table is created with its header, the lock is free, curr is 0
\* and every instance is submitted
InitRun == /\ tasks \in TaskSets
           /\ task = NoElement
           /\ tpc = 0
           /\ n_tasks \in {l1 \o l2 : l1 \in Listings(tasks["T1"]),
                                       l2 \in Listings(tasks["T2"])}
           /\ jobs \in 1..MaxJobs
           /\ prop \in Properties
           /\ TableInit(ReportHeader, FALSE)
           /\ queue = [i \in 1..Len(n_tasks) |-> i]
           /\ fut = [i \in 1..Len(n_tasks) |-> "pending"]
           /\ wpc = [w \in Workers |-> "idle"]
           /\ item = [w \in Workers |-> 0]
           /\ lock = 0
           /\ curr = 0
           /\ loaded = [w \in Workers |-> 0]
           /\ shown = <<>>
           /\ mpc = "results"
           /\ mnext = 1
           /\ hist = [i \in 1..Len(n_tasks) |->
                        [incs |-> 0, execs |-> 0, unlaunched |-> FALSE,
                         hung |-> FALSE]]
           /\ wrote = <<>>
           /\ epc = [w \in Workers |-> "left"]
           /\ args = [w \in Workers |-> NoArgs]
           /\ result = [w \in Workers |-> NoResult]
           /\ elapsed = [w \in Workers |-> 0]
           /\ child = [w \in Workers |-> NoChild]
           /\ excn = [w \in Workers |-> "None"]
           /\ proc = [w \in Workers |-> NoProc]
           /\ reportFile = [d \in {OutputDir(b) : b \in Benchmarks} |-> Absent]
           /\ NoValidate

Next == \/ \E w \in Workers : TakeWork(w)
        \/ \E w \in Workers : AcquireForProgress(w)
        \/ \E w \in Workers : LoadCurr(w)
        \/ \E w \in Workers : Progress(w)
        \/ \E w \in Workers : ParseYaml(w)
        \/ \E w \in Workers : Execute(w)
        \/ \E w \in Workers : ExecuteRaised(w)
        \/ \E w \in Workers : AcquireForRow(w)
        \/ \E w \in Workers : WriteResult(w)
        \/ NextResult
        \/ ResultRaises
        \/ Shutdown

Spec == InitRun /\ [][Next]_vars

\* the pool under its scheduling: the threads of the pool and the main
\* thread keep being scheduled, so a step that can be taken is taken
FairSpec == Spec /\ WF_vars(Next)

SpecTasks == InitTasks /\ [][NextTasks]_vars

(***************************************************************************)
(* validate / validate_tasks                                               *)
(***************************************************************************)
\* args.validate, the directory of the artifacts of an earlier run
ValidateDir == "wasp-out"

\* validate: testsuite, the directory of the instance's test cases
TestSuite(b) ==
    <<ValidateDir, basename(dirname(BenchmarkFile(b))),
      basename(BenchmarkFile(b)), "test-suite">>

\* the exit codes of the validator
ExitCodes == {0, 1}

\* subprocess.run(..., check=False): the exit code is not looked at
subprocess_run_unchecked(exit, check) == "None"

\* subprocess.run(..., check=check): the exception it raises, if any
subprocess_run(exit, check) ==
    IF check /\ exit # 0 THEN "CalledProcessError" ELSE "None"

\* validate((bench, args)), the validator ending with the given exit code if
\* it is run: what the call met, whether it ran the validator, and the value
\* it returned (ret) or the exception it raised (exc)
validate(bench, exit) ==
    LET bench_conf == Descriptors[bench]
        skip == Skip(bench_conf.properties, vprop, 1)
        exists == TestSuite(bench) \in vsuites
        met == [bench |-> bench, skip |-> skip, exists |-> exists,
                ran |-> FALSE, exit |-> 0, ret |-> 1, exc |-> "None"]
    IN  IF skip THEN met
        ELSE IF ~exists THEN met
             ELSE LET exc == subprocess_run(exit, TRUE)
                  IN  [met EXCEPT !.ran = TRUE, !.exit = exit,
                                  !.ret = IF exc = "None" THEN 0 ELSE -1,
                                  !.exc = exc]

\* validate_tasks: the next iteration of "for cat, benchmarks in
\* tasks.items()" starts, the list of its instances is built
ValidateCategory ==
    /\ vpc = "tasks"
    /\ vqueue = <<>>
    /\ vcats # <<>>
    /\ vqueue' \in Listings(tasks[Head(vcats)])
    /\ vcats' = Tail(vcats)
    /\ UNCHANGED <<vprop, vsuites, vpc, vdone>>
    /\ UNCHANGED <<tableVars, tasksVars, execVars, runVars>>

\* validate_tasks: list(map(validate, ...)) calls validate for the next
\* instance of the category; an exception of validate leaves validate_tasks
Validate ==
    /\ vpc = "tasks"
    /\ vqueue # <<>>
    /\ \E exit \in ExitCodes :
           LET outcome == validate(Head(vqueue), exit)
           IN  /\ vdone' = Append(vdone, outcome)
               /\ vpc' = IF outcome.exc = "None" THEN "tasks" ELSE "raised"
    /\ vqueue' = Tail(vqueue)
    /\ UNCHANGED <<vprop, vsuites, vcats>>
    /\ UNCHANGED <<tableVars, tasksVars, execVars, runVars>>

\* validate_tasks: return 0
ValidateReturn ==
    /\ vpc = "tasks"
    /\ vqueue = <<>>
    /\ vcats = <<>>
    /\ vpc' = "returned"
    /\ UNCHANGED <<vprop, vsuites, vcats, vqueue, vdone>>
    /\ UNCHANGED <<tableVars, tasksVars, execVars, runVars>>

\* validate_tasks(tasks, args) is called with the task sets parse_tasks
\* gave, some of the test-suite directories existing
InitValidate ==
    /\ tasks \in TaskSets
    /\ task = NoElement
    /\ tpc = 0
    /\ vprop \in Properties
    /\ vsuites \in SUBSET {TestSuite(b) : b \in Benchmarks}
    /\ vpc = "tasks"
    /\ vcats = <<"T1", "T2">>
    /\ vqueue = <<>>
    /\ vdone = <<>>
    /\ NoTable
    /\ NoExecute
    /\ NoRun

NextValidate == ValidateCategory \/ Validate \/ ValidateReturn

SpecValidate == InitValidate /\ [][NextValidate]_vars

(***************************************************************************)
(* Claims about the table                                                  *)
(***************************************************************************)
\* every record of the file has as many fields as the header
AllRecordsOfHeaderSize == \A i \in 1..Len(file) : Len(file[i]) = Len(header)

\* C6 (as stated): in direct mode and in buffered mode alike, after N
\* successful add_row calls the persisted file holds exactly 1 + N records,
\* the header first and then the N rows, each of the header's field count.
C6_FileHasAllRowsInEveryMode ==
    /\ file = <<header>> \o added
    /\ AllRecordsOfHeaderSize

\* C6 (amended): in direct mode the file is the header followed by the N
\* accepted rows in call order; in buffered mode add_row leaves the file
\* alone, so it holds only the header until commit is called; every record
\* of the file has the header's field count.
C6_DirectFileHasAllRows ==
    /\ ~memory => file = <<header>> \o added
    /\ (memory /\ commits = 0) => file = <<header>>
    /\ AllRecordsOfHeaderSize

\* C6 witness: a direct-mode table with a non-empty header has accepted two
\* rows
C6_Witness == ~memory /\ Len(header) > 0 /\ Len(added) >= 2

\* C7: add_row with a row whose length differs from the header's raises
\* RowLengthDiffersException carrying the expected and the actual length,
\* and leaves the file and the buffer as they were, in both modes.
C7_MismatchRejectedUntouched ==
    [][(call'.op = "add_row" /\ Len(call'.row) # rsize)
        => /\ raised' = RowLengthDiffersException(rsize, Len(call'.row))
           /\ file' = file
           /\ table' = table]_vars

\* C7 witness: a mismatched row was just rejected by a buffered table that
\* already buffers a row
C7_Witness ==
    /\ raised.type = "RowLengthDiffersException"
    /\ call.op = "add_row" /\ Len(call.row) # rsize
    /\ memory /\ Len(table) > 0

(***************************************************************************)
(* Claims about parse_tasks                                                *)
(***************************************************************************)
\* the elements of a sequence
Range(seq) == {seq[k] : k \in 1..Len(seq)}

\* what the non-empty patterns of list file f match as includes
IncludeMatches(f, patterns) ==
    UNION {glob(join(ListFiles[f].dirname, pat)) : pat \in patterns \ {<<>>}}

\* what the non-empty patterns of list file f match as excludes
ExcludeMatches(f, patterns) ==
    UNION {IF startswith(pat, SvDir)
           THEN glob(join(<<>>, pat))
           ELSE glob(join(ListFiles[f].dirname, pat)) : pat \in patterns \ {<<>>}}

IncludesFiles(elem) ==
    {e.text : e \in {c \in Range(elem.children) : c.tag = "includesfile"}}

ExcludesFiles(elem) ==
    {e.text : e \in {c \in Range(elem.children) : c.tag = "excludesfile"}}

\* C8: the set resolved for a task is the union of the glob matches of all
\* its includes-files minus the union of the glob matches of all its
\* excludes-files, whatever the order of the elements in the document.
C8_IncludesMinusExcludes ==
    tpc > 0 =>
        tasks[task.name] =
            UNION {IncludeMatches(f, Range(parse_list(f))) : f \in IncludesFiles(task)}
            \ UNION {ExcludeMatches(f, Range(parse_list(f))) : f \in ExcludesFiles(task)}

\* C8 witness: a task whose first child is an excludesfile and whose second
\* child is an includesfile matching a path the exclude matches too
C8_Witness ==
    /\ tpc > 0
    /\ Len(task.children) = 2
    /\ task.children[1].tag = "excludesfile"
    /\ task.children[2].tag = "includesfile"
    /\ LET shared ==
               ExcludeMatches(task.children[1].text,
                              Range(parse_list(task.children[1].text)))
               \cap IncludeMatches(task.children[2].text,
                                   Range(parse_list(task.children[2].text)))
       IN  shared # {} /\ shared \cap tasks[task.name] = {}

\* a line with nothing but whitespace
IsBlankLine(line) == strip(line) = <<>>

\* a line whose first non-blank character is the comment marker
IsCommentLine(line) == startswith(strip(line), "#")

\* the patterns of list file f, without its blank and its comment lines
PatternLines(f) ==
    {strip(line) : line \in {l \in Range(ListFiles[f].data) :
                                ~IsBlankLine(l) /\ ~IsCommentLine(l)}}

\* C9: blank lines and comment lines (the comment marker being the first
\* non-blank content of the line) never contribute a path: the resolved set
\* is the one the remaining lines alone give, as includes and as excludes.
C9_CommentLinesContributeNothing ==
    tpc > 0 =>
        tasks[task.name] =
            UNION {IncludeMatches(f, PatternLines(f)) : f \in IncludesFiles(task)}
            \ UNION {ExcludeMatches(f, PatternLines(f)) : f \in ExcludesFiles(task)}

(***************************************************************************)
(* Claims about execute                                                    *)
(***************************************************************************)
\* the record execute starts from: answer "Timeout", solver_time 0.0,
\* paths_explored 0
IsTimeoutRecord(r) ==
    /\ r.answer = PyStr(TimeoutAnswer)
    /\ r.solver_time = PyFloat(0)
    /\ r.paths_explored = PyInt(0)

\* C3: execute never propagates an exception to its caller: when the launch
\* of the child fails, or when signalling the process group after a timeout
\* fails, execute still returns the record with answer "Timeout",
\* solver_time 0.0 and paths_explored 0.
C3_ExecuteNeverRaises ==
    /\ epc[1] # "raised"
    /\ (/\ epc[1] = "returned"
        /\ \/ child[1].launch = "fails"
           \/ (child[1].duration >= TIMEOUT /\ child[1].group = "gone"))
       => IsTimeoutRecord(result[1])

\* C4: for a child that runs past the 900 second timeout, the record execute
\* returns has answer "Timeout", solver_time 0.0, paths_explored 0 and a
\* runtime of at least the timeout.
C4_TimeoutRecord ==
    (epc[1] = "returned" /\ child[1].duration >= TIMEOUT)
        => /\ IsTimeoutRecord(result[1])
           /\ result[1].runtime >= TIMEOUT

\* C4 witness: execute has returned for a child that ran past the timeout,
\* in an output directory that holds a report.json
C4_Witness ==
    /\ epc[1] = "returned"
    /\ child[1].duration > TIMEOUT
    /\ reportFile[args[1].output_dir] = StaleReport

\* C5: for a child that ends within the timeout, whatever its exit code,
\* with a well-formed report.json in the output directory, the record
\* execute returns has the report's specification, solver_time and
\* paths_explored as its answer, solver_time and paths_explored, and the
\* time from the launch to the return, which is positive, as its runtime.
C5_RecordMirrorsReport ==
    LET report == reportFile[args[1].output_dir]
    IN  (/\ epc[1] \in {"returned", "raised"}
         /\ child[1].launch = "ok"
         /\ child[1].duration < TIMEOUT
         /\ WellFormed(report))
        => /\ epc[1] = "returned"
           /\ result[1].answer = report.specification
           /\ result[1].solver_time = report.solver_time
           /\ result[1].paths_explored = report.paths_explored
           /\ result[1].runtime = child[1].forkTime + child[1].duration
           /\ result[1].runtime > 0

\* C5 witness: execute has returned for a child that wrote a well-formed
\* report and exited with a non-zero code within the timeout
C5_Witness ==
    /\ epc[1] = "returned"
    /\ child[1].duration < TIMEOUT
    /\ child[1].exit = 1
    /\ WellFormed(child[1].report)
    /\ reportFile[args[1].output_dir] = child[1].report

(***************************************************************************)
(* Claims about run_tasks and run_benchmark                                *)
(***************************************************************************)
\* the descriptor of benchmark b has an entry whose property_file has the
\* basename of the selected property
Declares(b) ==
    \E k \in DOMAIN Descriptors[b].properties :
        basename(Descriptors[b].properties[k].property_file) = basename(prop)

\* the instances of the task set
Instances == UNION {tasks[name] : name \in DOMAIN tasks}

\* the data rows of the report file that are about benchmark b
DataRowsOf(b) == {k \in 2..Len(file) : file[k][1] = BenchmarkFile(b)}

\* C1: when run_tasks returns, the report file holds exactly one data row
\* for each instance of the task set whose descriptor declares the selected
\* property, and none for any other instance, also for an instance that
\* belongs to more than one task.
C1_OneRowPerDeclaringInstance ==
    mpc = "returned" =>
        \A b \in Benchmarks :
            Cardinality(DataRowsOf(b)) =
                IF b \in Instances /\ Declares(b) THEN 1 ELSE 0

\* a worker is between an acquire and the release that follows it
InSection(w) == wpc[w] \in {"progress", "store", "add_row"}

\* C2: no two workers are inside a lock-protected section of run_benchmark
\* (the counter and progress section, the add_row section) at the same time.
C2_SectionsExclusive ==
    \A w1 \in Workers, w2 \in Workers :
        (w1 # w2 /\ InSection(w1)) => ~InSection(w2)

\* C2 witness: a worker is inside the add_row section while the other one
\* is at an acquire
C2_Witness ==
    \E w1 \in Workers, w2 \in Workers :
        /\ w1 # w2
        /\ wpc[w1] = "add_row"
        /\ \/ wpc[w2] = "acquire"
           \/ (wpc[w2] = "execute" /\ epc[w2] = "returned")

\* C10: an instance whose descriptor has no entry with the basename of the
\* selected property advances the counter by one, never enters execute and
\* writes no row; an instance with such an entry is never skipped.
C10_SkipIffNotDeclared ==
    \A i \in DOMAIN n_tasks :
        /\ ~Declares(n_tasks[i]) =>
               /\ hist[i].execs = 0
               /\ \A k \in DOMAIN wrote : wrote[k] # i
               /\ fut[i] = "finished" => hist[i].incs = 1
        /\ (Declares(n_tasks[i]) /\ fut[i] \in {"finished", "raised"}) =>
               /\ hist[i].execs = 1
               /\ hist[i].incs = 1

\* C10 witness: in one run an instance that does not declare the property
\* has been skipped and one that declares it under another directory has
\* had its row written
C10_Witness ==
    \E i \in DOMAIN n_tasks, j \in DOMAIN n_tasks :
        /\ ~Declares(n_tasks[i]) /\ fut[i] = "finished" /\ curr = 2
        /\ n_tasks[j] = "b2" /\ Declares("b2") /\ fut[j] = "finished"
        /\ \E k \in DOMAIN wrote : wrote[k] = j

\* submission i was skipped: it ran to its end without entering execute
Skipped(i) == fut[i] = "finished" /\ hist[i].execs = 0

\* the data rows submission i wrote, as indices into the file
RowsWrittenBy(i) == {k + 1 : k \in {j \in DOMAIN wrote : wrote[j] = i}}

\* C11: run_tasks returns only after every submitted instance was skipped or
\* had its row appended, the row of an instance whose child ran past the
\* timeout being a "Timeout" row; and for every worker count, if every
\* child that is launched exits or reaches the timeout, run_tasks eventually
\* returns.
C11_ReturnsAfterEveryInstance ==
    /\ [](mpc = "returned" =>
            \A i \in DOMAIN n_tasks :
                /\ fut[i] = "finished"
                /\ Skipped(i) \/ Cardinality(RowsWrittenBy(i)) = 1
                /\ hist[i].hung =>
                       \A k \in RowsWrittenBy(i) :
                           file[k][2] = PyStr(TimeoutAnswer))
    /\ <>(\/ mpc = "returned"
          \/ \E i \in DOMAIN n_tasks : hist[i].unlaunched)

\* C12: a failure raised inside one worker's task is confined to that
\* instance: the batch is not aborted (run_tasks does not end with the
\* exception) and every other submitted instance is still run, none being
\* cancelled.
C12_FailureConfined ==
    (\E i \in DOMAIN n_tasks : fut[i] = "raised") =>
        /\ mpc \notin {"raising", "raised"}
        /\ \A j \in DOMAIN n_tasks : fut[j] # "cancelled"

\* C13: the tool run for a call of execute receives the whole argument
\* vector: the input file, --output <output_dir>, --test-comp,
\* --property <prop>, --arch 32.
C13_ToolReceivesArguments ==
    \A w \in Launched :
        proc[w].tool = Cmd(args[w].benchmark, args[w].output_dir, args[w].prop)

\* C16: the child is the leader of a process group of its own, and when the
\* wait on it has timed out the termination signal has gone to that group:
\* to the child and to what it spawned, never to the harness itself (nor to
\* the processes of another call).
C16_SignalGoesToChildGroup ==
    \A w \in Launched :
        /\ proc[w].pgid = proc[w].pid
        /\ proc[w].pgid # OrchestratorPgid
        /\ Orchestrator \notin proc[w].signalled
        /\ (epc[w] \in {"return", "returned"} /\ child[w].duration >= TIMEOUT)
               => proc[w].signalled = {proc[w].pid, ToolPid(w)}

\* C16 witness: a worker has handled the timeout of its child and signalled
\* its group while another worker's child is running
C16_Witness ==
    \E w1 \in Launched, w2 \in Launched :
        /\ w1 # w2
        /\ epc[w1] = "return"
        /\ child[w1].duration >= TIMEOUT
        /\ proc[w1].signalled # {}
        /\ epc[w2] = "communicate"

\* C14: for a child that ends within the timeout, whatever its exit code,
\* with report.json absent or malformed (not JSON, or JSON that lacks or
\* mistypes specification, solver_time or paths_explored), execute does not
\* raise and returns the record with answer "Timeout", solver_time 0.0 and
\* paths_explored 0.
C14_MalformedReportGivesDefaults ==
    (/\ epc[1] \in {"returned", "raised"}
     /\ child[1].launch = "ok"
     /\ child[1].duration < TIMEOUT
     /\ ~WellFormed(reportFile[args[1].output_dir]))
    => /\ epc[1] = "returned"
       /\ IsTimeoutRecord(result[1])

\* C15: a worker does not hold the shared lock while it parses the
\* descriptor or is inside execute: the lock is released after the counter
\* and progress section and taken again only once execute has returned.
C15_LockFreeDuringExecute ==
    \A w \in Workers : wpc[w] \in {"parse_yaml", "execute"} => lock # w

\* C15 witness: two workers wait on their children at the same time, a
\* third party being free to take the lock
C15_Witness ==
    \E w1 \in Workers, w2 \in Workers :
        /\ w1 # w2
        /\ wpc[w1] = "execute" /\ epc[w1] = "communicate"
        /\ wpc[w2] = "execute" /\ epc[w2] = "communicate"
        /\ lock = 0

\* C17: whatever add_row, clear_table and commit calls were made, each
\* accepted row is written to the file at most once: the file never holds
\* more data records than rows were accepted, in buffered mode (a row
\* flushed by one commit is not written again by a later one) as in direct
\* mode (commit leaves the file as it is).
C17_RowsWrittenAtMostOnce ==
    /\ Len(file) - 1 <= Len(added)
    /\ ~memory => file = <<header>> \o added

\* C18: two distinct benchmark instances of one run are never given the same
\* output directory, so that no two children, at the same time or one after
\* the other, write the report.json of one directory.
C18_OutputDirPerInstance ==
    /\ \A i \in DOMAIN n_tasks, j \in DOMAIN n_tasks :
           (/\ n_tasks[i] # n_tasks[j]
            /\ hist[i].execs > 0
            /\ hist[j].execs > 0)
           => OutputDir(n_tasks[i]) # OutputDir(n_tasks[j])
    /\ \A w1 \in Workers, w2 \in Workers :
           (/\ w1 # w2
            /\ wpc[w1] = "execute"
            /\ wpc[w2] = "execute"
            /\ args[w1].benchmark # args[w2].benchmark)
           => args[w1].output_dir # args[w2].output_dir

(***************************************************************************)
(* Claims about validate_tasks                                             *)
(***************************************************************************)
\* the instances of all categories, counted once per category
ToValidate == Cardinality(tasks["T1"]) + Cardinality(tasks["T2"])

\* C19: a run of the validator that fails is surfaced as an exception of
\* the call of validate for that instance and is never turned into a
\* returned value; an instance whose descriptor does not name the selected
\* property, or whose test-suite directory does not exist, is skipped: the
\* validator is not run for it, validate returns 1 and validate_tasks
\* goes on, so that it returns only after every instance was gone through.
C19_ValidatorFailureSurfaces ==
    /\ \A k \in DOMAIN vdone :
           LET r == vdone[k]
           IN  /\ (r.ran /\ r.exit # 0) <=> r.exc = "CalledProcessError"
               /\ r.exc # "None" => (k = Len(vdone) /\ vpc = "raised")
               /\ (r.skip \/ ~r.exists) =>
                      /\ ~r.ran
                      /\ r.ret = 1
                      /\ r.exc = "None"
                      /\ k = Len(vdone) => vpc \in {"tasks", "returned"}
               /\ r.ran <=> (~r.skip /\ r.exists)
    /\ vpc = "returned" => Len(vdone) = ToValidate
    /\ vpc = "raised" => vdone[Len(vdone)].exc # "None"

\* C19 witness: an instance whose descriptor does not name the property was
\* skipped, the validation went on and the validator failed for the next
\* instance
C19_Witness ==
    /\ Len(vdone) = 2
    /\ vdone[1].skip /\ ~vdone[1].ran /\ vdone[1].ret = 1
    /\ vdone[2].ran /\ vdone[2].exit = 1
    /\ vpc = "raised"

\* C20: the counter is incremented exactly once per submitted instance and
\* no increment is lost: curr is between 0 and the number of submitted
\* instances, the values passed to progress are 1, 2, ..., curr in this
\* order (all distinct, never decreasing), curr counts the instances that
\* have been through the counter section, which is all of them once every
\* instance has started, and the percentage rendered never exceeds 100.
C20_CounterExact ==
    LET size == Len(n_tasks)
        counted == {i \in DOMAIN n_tasks : hist[i].incs > 0}
    IN  /\ curr \in 0..size
        /\ shown = [k \in 1..curr |-> k]
        /\ \A i \in DOMAIN n_tasks : hist[i].incs <= 1
        /\ curr = Cardinality(counted)
        /\ (\A i \in DOMAIN n_tasks : fut[i] \in {"finished", "raised"})
               => curr = size
        /\ \A k \in DOMAIN shown : progress(shown[k], size) <= 100

\* C20 witness: one worker has read the counter, which the other had
\* advanced, and has not yet stored it while the other is back at the lock
\* with its result
C20_Witness ==
    \E w1 \in Workers, w2 \in Workers :
        /\ wpc[w1] = "store"
        /\ loaded[w1] = 1
        /\ lock = w1
        /\ wpc[w2] = "execute"
        /\ epc[w2] = "returned"

====
